---- MODULE Spec2Model ----
(***************************************************************************)
(* Model of the DNS-resolving transport wrapper of transports/dns          *)
(* (src/transports/dns/src/lib.rs): the resolution/dial loop of            *)
(* Transport::do_dial, the protocol resolver `resolve`, the TXT record     *)
(* parser `parse_dnsaddr_txt` and the error value returned by a dial.      *)
(*                                                                         *)
(* A multiaddress is a sequence of components <<protocol, value>>.  The    *)
(* resolver and the inner transport are the environment: the resolver      *)
(* answers from a fixed zone or, within a budget, fails; the inner         *)
(* transport accepts a dial (and the dial future later succeeds or fails)  *)
(* or, within the same budget, refuses it synchronously.                   *)
(***************************************************************************)
EXTENDS Integers, Sequences, FiniteSets, TLC

(***************************************************************************)
(* Program constants.                                                      *)
(***************************************************************************)
MAX_DIAL_ATTEMPTS == 16
MAX_DNS_LOOKUPS == 32
MAX_TXT_RECORDS == 16

(***************************************************************************)
(* Bounds of the model.                                                    *)
(***************************************************************************)
\* dial futures that exist on the transport
NumDials == 2
\* environment faults per dial call: resolver failures that the zone does
\* not prescribe and synchronous errors of the inner transport's dial
MaxFaults == 1

Dials == 1..NumDials

VARIABLES
    pc,             \* position of each dial future
    input,          \* the address given to the wrapper's dial
    unresolved,     \* work set (a stack: pop takes the last element)
    dns_lookups,
    dial_attempts,
    dial_errors,
    cur,            \* the popped address `addr` of the current iteration
    idx,            \* index `i` of the component being resolved (0: none)
    result,         \* output of the dial future
    lock,           \* holder of the inner-transport mutex (0: free)
    facade,         \* listen_on / remove_listener / poll call in progress
    lookups,        \* log: components handed to the resolver, per dial
    dialed,         \* log: addresses passed to the inner transport's dial
    accepted,       \* log: inner dial calls that returned a dial future
    succeeded,      \* log: inner dial futures that resolved to success
    faults          \* environment faults used up, per dial

vars == <<pc, input, unresolved, dns_lookups, dial_attempts, dial_errors,
          cur, idx, result, lock, facade, lookups, dialed, accepted,
          succeeded, faults>>

(***************************************************************************)
(* Multiaddresses.                                                         *)
(***************************************************************************)
Last(s) == s[Len(s)]
Front(s) == SubSeq(s, 1, Len(s) - 1)

\* mutant: the Dnsaddr pattern is missing
IsDnsProto_NoDnsaddr(p) == p[1] \in {"dns", "dns4", "dns6"}

\* matches!(p, Protocol::Dns(_) | Dns4(_) | Dns6(_) | Dnsaddr(_))
IsDnsProto(p) == p[1] \in {"dns", "dns4", "dns6", "dnsaddr"}

FullyResolved(addr) == \A k \in 1..Len(addr) : ~IsDnsProto(addr[k])

\* mutant: the last name-bearing component is taken
FindName_Last(addr) ==
    IF FullyResolved(addr) THEN 0
    ELSE CHOOSE k \in 1..Len(addr) :
            /\ IsDnsProto(addr[k])
            /\ \A j \in (k + 1)..Len(addr) : ~IsDnsProto(addr[j])

\* addr.iter().enumerate().find(..): index of the first name-bearing
\* component, 0 when there is none
FindName(addr) ==
    IF FullyResolved(addr) THEN 0
    ELSE CHOOSE k \in 1..Len(addr) :
            /\ IsDnsProto(addr[k])
            /\ \A j \in 1..(k - 1) : ~IsDnsProto(addr[j])

\* addr.replace(i, |_| Some(p))
Replace(addr, i, p) == [addr EXCEPT ![i] = p]

\* a.ends_with(&suffix)
EndsWith(a, suffix) ==
    /\ Len(a) >= Len(suffix)
    /\ SubSeq(a, Len(a) - Len(suffix) + 1, Len(a)) = suffix

\* addr.iter().skip(i + 1).collect()
SuffixAfter(addr, i) == SubSeq(addr, i + 1, Len(addr))

\* addr.iter().take(i).collect(), i counted from 0 in the source
PrefixBefore(addr, i) == SubSeq(addr, 1, i - 1)

(***************************************************************************)
(* Errors of the wrapper (enum Error<TErr>).                               *)
(***************************************************************************)
ErrTransport(e) == [type |-> "Transport", terr |-> e]
ErrResolve(e) == [type |-> "ResolveError", rerr |-> e]
ErrNotSupported(a) == [type |-> "MultiaddrNotSupported", addr |-> a]
ErrTooManyLookups == [type |-> "TooManyLookups"]
ErrDial(errs) == [type |-> "Dial", errs |-> errs]

NoMatchingRecords == ErrResolve("No Matching Records Found")

(***************************************************************************)
(* TXT records and their parser.  A TXT record is the sequence of its      *)
(* <character-string>s; a character-string is [utf8, s] with s the text    *)
(* cut into tokens: the literal "dnsaddr=" and the parts of a multiaddress *)
(* between slashes.                                                        *)
(***************************************************************************)
ProtocolNames == {"dns", "dns4", "dns6", "dnsaddr", "ip4", "ip6", "tcp", "p2p"}

\* Multiaddr::try_from(text): the text is a sequence of pairs of a known
\* protocol name and its value
MultiaddrTryFrom(toks) ==
    IF /\ Len(toks) % 2 = 0
       /\ \A k \in 1..(Len(toks) \div 2) : toks[2 * k - 1] \in ProtocolNames
    THEN [ok |-> TRUE,
          addr |-> [k \in 1..(Len(toks) \div 2) |-> <<toks[2 * k - 1], toks[2 * k]>>]]
    ELSE [ok |-> FALSE, addr |-> <<>>]

\* parse_dnsaddr_txt
ParseDnsaddrTxt(cs) ==
    IF ~cs.utf8 THEN [ok |-> FALSE, addr |-> <<>>]
    ELSE IF cs.s = <<>> \/ cs.s[1] # "dnsaddr="
         THEN [ok |-> FALSE, addr |-> <<>>]
         ELSE MultiaddrTryFrom(Tail(cs.s))

RECURSIVE ParsedFrom(_, _)
\* the loop `for txt in txts` of resolve's Dnsaddr arm from record k on: the
\* first character-string of each record, invalid entries skipped
ParsedFrom(txts, k) ==
    IF k > Len(txts) THEN <<>>
    ELSE IF txts[k] = <<>> THEN ParsedFrom(txts, k + 1)
         ELSE IF ParseDnsaddrTxt(txts[k][1]).ok
              THEN <<ParseDnsaddrTxt(txts[k][1]).addr>> \o ParsedFrom(txts, k + 1)
              ELSE ParsedFrom(txts, k + 1)

RECURSIVE StopAtInvalidFrom(_, _)
StopAtInvalidFrom(txts, k) ==
    IF k > Len(txts) \/ txts[k] = <<>> THEN <<>>
    ELSE IF ParseDnsaddrTxt(txts[k][1]).ok
         THEN <<ParseDnsaddrTxt(txts[k][1]).addr>> \o StopAtInvalidFrom(txts, k + 1)
         ELSE <<>>

\* mutant: the first invalid record ends the loop
ParsedAddrs_StopAtInvalid(txts) == StopAtInvalidFrom(txts, 1)

\* the addresses collected by resolve's Dnsaddr arm
ParsedAddrs(txts) == ParsedFrom(txts, 1)

(***************************************************************************)
(* The protocol resolver.  `answer` is what the Resolver trait returned:   *)
(* [ok |-> FALSE, err], [ok |-> TRUE, ips] or [ok |-> TRUE, txts].         *)
(***************************************************************************)
\* Protocol::from(IpAddr) / Protocol::from(Ipv4Addr) / Protocol::from(Ipv6Addr)
ProtocolFromIp(ip) == <<IF ip.v = 4 THEN "ip4" ELSE "ip6", ip.a>>

\* mutant: the alternatives come out in the reverse of the resolver's order
MapIps_Reversed(ips) == [k \in 1..Len(ips) |-> ProtocolFromIp(ips[Len(ips) + 1 - k])]

MapIps(ips) == [k \in 1..Len(ips) |-> ProtocolFromIp(ips[k])]

\* mutant: the resolver's error is replaced by a fixed one
Resolve_Opaque(proto, answer) ==
    IF ~IsDnsProto(proto) THEN [tag |-> "One", p |-> proto]
    ELSE IF ~answer.ok THEN [tag |-> "Err", err |-> ErrResolve("lookup failed")]
    ELSE IF proto[1] = "dnsaddr"
         THEN [tag |-> "Addrs", addrs |-> ParsedAddrs(answer.txts)]
         ELSE IF Len(answer.ips) >= 2
              THEN [tag |-> "Many", ps |-> MapIps(answer.ips)]
              ELSE [tag |-> "One", p |-> ProtocolFromIp(answer.ips[1])]

\* fn resolve, after the lookup future has completed
Resolve(proto, answer) ==
    IF ~IsDnsProto(proto) THEN [tag |-> "One", p |-> proto]
    ELSE IF ~answer.ok THEN [tag |-> "Err", err |-> ErrResolve(answer.err)]
    ELSE IF proto[1] = "dnsaddr"
         THEN [tag |-> "Addrs", addrs |-> ParsedAddrs(answer.txts)]
         ELSE IF Len(answer.ips) >= 2
              THEN [tag |-> "Many", ps |-> MapIps(answer.ips)]
              ELSE [tag |-> "One", p |-> ProtocolFromIp(answer.ips[1])]

RecordCapOk(n) == n < MAX_TXT_RECORDS

RECURSIVE AcceptFrom(_, _, _, _, _)
\* the loop `for a in addrs` of the Resolved::Addrs arm from address k on,
\* with n addresses pushed so far
AcceptFrom(addrs, k, suffix, prefix, n) ==
    IF k > Len(addrs) THEN <<>>
    ELSE IF EndsWith(addrs[k], suffix) /\ RecordCapOk(n)
         THEN <<prefix \o addrs[k]>> \o AcceptFrom(addrs, k + 1, suffix, prefix, n + 1)
         ELSE AcceptFrom(addrs, k + 1, suffix, prefix, n)

\* mutant: the records are not compared with the suffix
AcceptAddrs_NoFilter(addrs, suffix, prefix) ==
    [k \in 1..(IF Len(addrs) < MAX_TXT_RECORDS THEN Len(addrs) ELSE MAX_TXT_RECORDS)
        |-> prefix \o addrs[k]]

\* mutant: the cap counts the records looked at, matching or not
AcceptAddrs_CountAll(addrs, suffix, prefix) ==
    AcceptFrom(SubSeq(addrs, 1, IF Len(addrs) < MAX_TXT_RECORDS THEN Len(addrs)
                                 ELSE MAX_TXT_RECORDS),
               1, suffix, prefix, 0)

\* the addresses pushed by the Resolved::Addrs arm
AcceptAddrs(addrs, suffix, prefix) == AcceptFrom(addrs, 1, suffix, prefix, 0)

\* the addresses pushed onto `unresolved` for one resolution outcome
Expansion(addr, i, res) ==
    CASE res.tag = "Err" -> <<>>
      [] res.tag = "One" -> <<Replace(addr, i, res.p)>>
      [] res.tag = "Many" -> [k \in 1..Len(res.ps) |-> Replace(addr, i, res.ps[k])]
      [] res.tag = "Addrs" ->
            AcceptAddrs(res.addrs, SuffixAfter(addr, i), PrefixBefore(addr, i))

\* the errors pushed onto `dial_errors` for one resolution outcome
ResolveErrors(res) == IF res.tag = "Err" THEN <<res.err>> ELSE <<>>

(***************************************************************************)
(* The loop's conditions and the value returned after the loop.            *)
(***************************************************************************)
\* mutants: the cap is compared one lookup late
LookupCapReached_Late(n) == n = MAX_DNS_LOOKUPS + 1
LookupCapReached_Gt(n) == n > MAX_DNS_LOOKUPS

LookupCapReached(n) == n = MAX_DNS_LOOKUPS

\* mutant: the attempt cap is one too high
AttemptCapReached_Late(n) == n = MAX_DIAL_ATTEMPTS + 1

AttemptCapReached(n) == n = MAX_DIAL_ATTEMPTS

\* mutant: the attempt cap is not consulted
StopAfterError_NoCap(rest, attempts) == rest = <<>>

\* `break` after a failed dial
StopAfterError(rest, attempts) == rest = <<>> \/ AttemptCapReached(attempts)

\* mutant: a single recorded error is returned bare
Failure_Single(errs) ==
    IF errs = <<>> THEN [tag |-> "Err", err |-> NoMatchingRecords]
    ELSE IF Len(errs) = 1 THEN [tag |-> "Err", err |-> errs[1]]
         ELSE [tag |-> "Err", err |-> ErrDial(errs)]

\* the value returned when the loop is left without success
Failure(errs) ==
    IF errs # <<>> THEN [tag |-> "Err", err |-> ErrDial(errs)]
    ELSE [tag |-> "Err", err |-> NoMatchingRecords]

NoResult == [tag |-> "None"]

(***************************************************************************)
(* impl error::Error for Error: the next error of the source chain, if any *)
(***************************************************************************)
NoSource == [some |-> FALSE]
SomeSource(kind, v) == [some |-> TRUE, of |-> kind, v |-> v]

RECURSIVE Source(_)
Source(e) ==
    CASE e.type = "Transport" -> SomeSource("TErr", e.terr)
      [] e.type = "ResolveError" -> SomeSource("ResolveError", e.rerr)
      [] e.type = "MultiaddrNotSupported" -> NoSource
      [] e.type = "TooManyLookups" -> NoSource
      [] e.type = "Dial" ->
            IF e.errs = <<>> THEN NoSource ELSE Source(Last(e.errs))

(***************************************************************************)
(* The environment: the names the resolver knows, the addresses dialed.    *)
(***************************************************************************)
IpStr(k) == "10.0.0." \o ToString(k)

\* a well-formed character-string `dnsaddr=<multiaddr text>`
CS(toks) == [utf8 |-> TRUE, s |-> <<"dnsaddr=">> \o toks]

\* TXT records at _dnsaddr.<name>; <<>> stands for "no records found"
ZoneTxt(name) ==
    CASE name = "boot" ->
            << <<CS(<<"ip4", "1.2.3.4", "tcp", "4001", "p2p", "A">>)>>,
               <<[utf8 |-> FALSE, s |-> <<"dnsaddr=", "ip4", "6.6.6.6", "p2p", "A">>]>>,
               <<CS(<<"dnsaddr", "sub", "p2p", "A">>)>>,
               <<[utf8 |-> TRUE, s |-> <<"ip4", "6.6.6.6", "p2p", "A">>]>>,
               <<CS(<<"dns4", "host", "tcp", "4001", "p2p", "B">>),
                 CS(<<"ip4", "6.6.6.6", "p2p", "A">>)>>,
               <<>>,
               <<CS(<<"nope", "6.6.6.6", "p2p", "A">>)>>,
               <<CS(<<"ip4", "6.6.6.6", "p2p">>)>> >>
      [] name = "sub" ->
            << <<CS(<<"ip4", "5.6.7.8", "tcp", "4001", "p2p", "A">>)>>,
               <<CS(<<"ip6", "::2", "tcp", "4001", "p2p", "C">>)>> >>
      [] name = "cyc" -> << <<CS(<<"dnsaddr", "cyc">>)>> >>
      [] name = "fan" -> << <<CS(<<"dnsaddr", "fan">>)>>, <<CS(<<"dnsaddr", "fan">>)>> >>
      [] name = "mix" ->
            << <<CS(<<"ip4", "9.9.9.9", "tcp", "1">>)>>, <<CS(<<"dnsaddr", "mix">>)>> >>
      [] name = "many" ->
            [k \in 1..(MAX_TXT_RECORDS + 2) |-> <<CS(<<"ip4", IpStr(k), "tcp", "1">>)>>]
      [] name = "junk" ->
            << <<[utf8 |-> TRUE, s |-> <<"ip4", "6.6.6.6">>]>>, <<>> >>
      [] name = "tail" -> << <<CS(<<"ip4", "7.7.7.7", "dns4", "host">>)>> >>
      [] name = "wide" ->
            [k \in 1..(MAX_TXT_RECORDS + 3) |->
                <<CS(<<"ip4", IpStr(k), "tcp", "1", "p2p", IF k <= 2 THEN "B" ELSE "A">>)>>]
      [] OTHER -> <<>>

\* A / AAAA records of <name>; <<>> stands for "no records found"
ZoneIps(kind, name) ==
    CASE name = "host" /\ kind = "dns4" -> <<[v |-> 4, a |-> "1.2.3.4"]>>
      [] name = "host" /\ kind = "dns6" -> <<[v |-> 6, a |-> "::1"]>>
      [] name = "host" /\ kind = "dns" ->
            <<[v |-> 4, a |-> "1.2.3.4"], [v |-> 6, a |-> "::1"]>>
      [] name = "big" /\ kind = "dns4" ->
            [k \in 1..(MAX_DIAL_ATTEMPTS + 1) |-> [v |-> 4, a |-> IpStr(k)]]
      [] OTHER -> <<>>

\* what the Resolver trait returns for the lookup of one component when it
\* answers from the zone: zero results are an error, never an empty success
ZoneAnswer(proto) ==
    IF proto[1] = "dnsaddr"
    THEN IF ZoneTxt(proto[2]) = <<>>
         THEN [ok |-> FALSE, err |-> "NoRecordsFound"]
         ELSE [ok |-> TRUE, txts |-> ZoneTxt(proto[2])]
    ELSE IF ZoneIps(proto[1], proto[2]) = <<>>
         THEN [ok |-> FALSE, err |-> "NoRecordsFound"]
         ELSE [ok |-> TRUE, ips |-> ZoneIps(proto[1], proto[2])]

ResolverFault == [ok |-> FALSE, err |-> "Timeout"]

\* the addresses handed to the wrapper's dial
InputAddrs ==
    { << <<"dns4", "host">>, <<"tcp", "20000">> >>,
      << <<"dns6", "host">>, <<"tcp", "20000">> >>,
      << <<"dns", "host">>, <<"tcp", "20000">> >>,
      << <<"ip4", "1.2.3.4">>, <<"tcp", "20000">> >>,
      << <<"ip6", "::1">>, <<"tcp", "20000">>, <<"p2p", "A">> >>,
      << <<"dnsaddr", "boot">> >>,
      << <<"dnsaddr", "boot">>, <<"p2p", "A">> >>,
      << <<"dnsaddr", "boot">>, <<"p2p", "Z">> >>,
      << <<"dns4", "invalid">>, <<"tcp", "20000">> >>,
      << <<"dnsaddr", "cyc">> >>,
      << <<"dnsaddr", "fan">> >>,
      << <<"dnsaddr", "mix">> >>,
      << <<"dnsaddr", "many">> >>,
      << <<"dnsaddr", "junk">> >>,
      << <<"dns4", "big">>, <<"tcp", "1">> >>,
      << <<"dns6", "host">>, <<"tcp", "1">>, <<"dnsaddr", "sub">>, <<"p2p", "A">> >>,
      << <<"dnsaddr", "tail">>, <<"dns4", "host">> >>,
      << <<"dnsaddr", "wide">>, <<"p2p", "A">> >> }

\* the output and the error of an inner dial future
InnerOutput(addr) == [conn |-> addr]
InnerError(addr) == [kind |-> "Unsupported", addr |-> addr]

\* synchronous errors of the inner transport's dial
InnerSyncErrors(addr) ==
    { ErrNotSupported(a) : a \in {addr, Front(addr)} }
        \cup { ErrTransport([kind |-> "Other", addr |-> addr]) }

(***************************************************************************)
(* Initial state: the transport is constructed, no dial has been called.   *)
(***************************************************************************)
Init ==
    /\ pc = [d \in Dials |-> "idle"]
    /\ input = [d \in Dials |-> <<>>]
    /\ unresolved = [d \in Dials |-> <<>>]
    /\ dns_lookups = [d \in Dials |-> 0]
    /\ dial_attempts = [d \in Dials |-> 0]
    /\ dial_errors = [d \in Dials |-> <<>>]
    /\ cur = [d \in Dials |-> <<>>]
    /\ idx = [d \in Dials |-> 0]
    /\ result = [d \in Dials |-> NoResult]
    /\ lock = 0
    /\ facade = "none"
    /\ lookups = [d \in Dials |-> <<>>]
    /\ dialed = [d \in Dials |-> <<>>]
    /\ accepted = [d \in Dials |-> 0]
    /\ succeeded = [d \in Dials |-> 0]
    /\ faults = [d \in Dials |-> 0]

(***************************************************************************)
(* Transport::dial / do_dial: returns the dial future, whose locals are    *)
(* the work set, the counters and the error list.                          *)
(***************************************************************************)
\* mutant: an address without a name is dialed at once on the inner
\* transport, whose refusal is returned by the call itself
Dial_Direct(d, addr) ==
    /\ pc[d] = "idle"
    /\ input' = [input EXCEPT ![d] = addr]
    /\ dns_lookups' = [dns_lookups EXCEPT ![d] = 0]
    /\ dial_attempts' = [dial_attempts EXCEPT ![d] = 0]
    /\ dial_errors' = [dial_errors EXCEPT ![d] = <<>>]
    /\ IF FullyResolved(addr)
       THEN /\ lock = 0
            /\ pc' = [pc EXCEPT ![d] = "done"]
            /\ unresolved' = [unresolved EXCEPT ![d] = <<>>]
            /\ dialed' = [dialed EXCEPT ![d] = Append(@, addr)]
            /\ result' = [result EXCEPT ![d] =
                             [tag |-> "Err", err |-> ErrNotSupported(addr)]]
       ELSE /\ pc' = [pc EXCEPT ![d] = "loop"]
            /\ unresolved' = [unresolved EXCEPT ![d] = <<addr>>]
            /\ UNCHANGED <<dialed, result>>
    /\ UNCHANGED <<facade, cur, idx, lock, lookups, succeeded, faults, accepted>>

Dial(d, addr) ==
    /\ pc[d] = "idle"
    /\ pc' = [pc EXCEPT ![d] = "loop"]
    /\ input' = [input EXCEPT ![d] = addr]
    /\ unresolved' = [unresolved EXCEPT ![d] = <<addr>>]
    /\ dns_lookups' = [dns_lookups EXCEPT ![d] = 0]
    /\ dial_attempts' = [dial_attempts EXCEPT ![d] = 0]
    /\ dial_errors' = [dial_errors EXCEPT ![d] = <<>>]
    /\ UNCHANGED <<facade, cur, idx, result, lock, lookups, dialed, succeeded, faults,
                   accepted>>

(***************************************************************************)
(* One pass through the head of `while let Some(addr) = unresolved.pop()`  *)
(* up to the next suspension point, or the return after the loop.          *)
(***************************************************************************)
LoopExit(d) ==
    /\ pc[d] = "loop"
    /\ unresolved[d] = <<>>
    /\ pc' = [pc EXCEPT ![d] = "done"]
    /\ result' = [result EXCEPT ![d] = Failure(dial_errors[d])]
    /\ UNCHANGED <<facade, input, unresolved, dns_lookups, dial_attempts, dial_errors,
                   cur, idx, lock, lookups, dialed, succeeded, faults, accepted>>

\* mutant: the whole work set is dropped with the address
PopTooMany_Abandon(d) ==
    /\ pc[d] = "loop"
    /\ unresolved[d] # <<>>
    /\ FindName(Last(unresolved[d])) # 0
    /\ LookupCapReached(dns_lookups[d])
    /\ unresolved' = [unresolved EXCEPT ![d] = <<>>]
    /\ dial_errors' = [dial_errors EXCEPT ![d] = Append(@, ErrTooManyLookups)]
    /\ UNCHANGED <<facade, pc, input, dns_lookups, dial_attempts, cur, idx, result,
                   lock, lookups, dialed, succeeded, faults, accepted>>

\* a name-bearing component is found and the lookup cap is reached
PopTooMany(d) ==
    /\ pc[d] = "loop"
    /\ unresolved[d] # <<>>
    /\ FindName(Last(unresolved[d])) # 0
    /\ LookupCapReached(dns_lookups[d])
    /\ unresolved' = [unresolved EXCEPT ![d] = Front(@)]
    /\ dial_errors' = [dial_errors EXCEPT ![d] = Append(@, ErrTooManyLookups)]
    /\ UNCHANGED <<facade, pc, input, dns_lookups, dial_attempts, cur, idx, result,
                   lock, lookups, dialed, succeeded, faults, accepted>>

\* mutant: the lookups are counted on the transport, for all calls together
PopResolve_SharedCount(d) ==
    /\ pc[d] = "loop"
    /\ unresolved[d] # <<>>
    /\ LET addr == Last(unresolved[d])
           i == FindName(addr)
       IN  /\ i # 0
           /\ ~LookupCapReached(dns_lookups[d])
           /\ unresolved' = [unresolved EXCEPT ![d] = Front(@)]
           /\ dns_lookups' = [e \in Dials |-> dns_lookups[e] + 1]
           /\ cur' = [cur EXCEPT ![d] = addr]
           /\ idx' = [idx EXCEPT ![d] = i]
           /\ lookups' = [lookups EXCEPT ![d] = Append(@, addr[i])]
    /\ pc' = [pc EXCEPT ![d] = "resolve"]
    /\ UNCHANGED <<facade, input, dial_attempts, dial_errors, result, lock, dialed,
                   succeeded, faults, accepted>>

\* mutant: the mutex is taken for the whole iteration, before the lookup
PopResolve_HoldingLock(d) ==
    /\ pc[d] = "loop"
    /\ unresolved[d] # <<>>
    /\ lock = 0
    /\ lock' = d
    /\ LET addr == Last(unresolved[d])
           i == FindName(addr)
       IN  /\ i # 0
           /\ ~LookupCapReached(dns_lookups[d])
           /\ unresolved' = [unresolved EXCEPT ![d] = Front(@)]
           /\ dns_lookups' = [dns_lookups EXCEPT ![d] = @ + 1]
           /\ cur' = [cur EXCEPT ![d] = addr]
           /\ idx' = [idx EXCEPT ![d] = i]
           /\ lookups' = [lookups EXCEPT ![d] = Append(@, addr[i])]
    /\ pc' = [pc EXCEPT ![d] = "resolve"]
    /\ UNCHANGED <<facade, input, dial_attempts, dial_errors, result, dialed,
                   succeeded, faults, accepted>>

\* a name-bearing component is found and handed to the resolver
PopResolve(d) ==
    /\ pc[d] = "loop"
    /\ unresolved[d] # <<>>
    /\ LET addr == Last(unresolved[d])
           i == FindName(addr)
       IN  /\ i # 0
           /\ ~LookupCapReached(dns_lookups[d])
           /\ unresolved' = [unresolved EXCEPT ![d] = Front(@)]
           /\ dns_lookups' = [dns_lookups EXCEPT ![d] = @ + 1]
           /\ cur' = [cur EXCEPT ![d] = addr]
           /\ idx' = [idx EXCEPT ![d] = i]
           /\ lookups' = [lookups EXCEPT ![d] = Append(@, addr[i])]
    /\ pc' = [pc EXCEPT ![d] = "resolve"]
    /\ UNCHANGED <<facade, input, dial_attempts, dial_errors, result, lock, dialed,
                   succeeded, faults, accepted>>

\* mutant: the address is read but left in the work set
PopDial_Peek(d) ==
    /\ pc[d] = "loop"
    /\ unresolved[d] # <<>>
    /\ FindName(Last(unresolved[d])) = 0
    /\ cur' = [cur EXCEPT ![d] = Last(unresolved[d])]
    /\ idx' = [idx EXCEPT ![d] = 0]
    /\ pc' = [pc EXCEPT ![d] = "lock"]
    /\ UNCHANGED <<facade, input, unresolved, dns_lookups, dial_attempts, dial_errors,
                   result, lock, lookups, dialed, succeeded, faults, accepted>>

\* mutant: the oldest address of the work set is taken
PopDial_First(d) ==
    /\ pc[d] = "loop"
    /\ unresolved[d] # <<>>
    /\ FindName(Head(unresolved[d])) = 0
    /\ unresolved' = [unresolved EXCEPT ![d] = Tail(@)]
    /\ cur' = [cur EXCEPT ![d] = Head(unresolved[d])]
    /\ idx' = [idx EXCEPT ![d] = 0]
    /\ pc' = [pc EXCEPT ![d] = "lock"]
    /\ UNCHANGED <<facade, input, dns_lookups, dial_attempts, dial_errors, result,
                   lock, lookups, dialed, succeeded, faults, accepted>>

\* the address is fully resolved: go on to dial it
PopDial(d) ==
    /\ pc[d] = "loop"
    /\ unresolved[d] # <<>>
    /\ FindName(Last(unresolved[d])) = 0
    /\ unresolved' = [unresolved EXCEPT ![d] = Front(@)]
    /\ cur' = [cur EXCEPT ![d] = Last(unresolved[d])]
    /\ idx' = [idx EXCEPT ![d] = 0]
    /\ pc' = [pc EXCEPT ![d] = "lock"]
    /\ UNCHANGED <<facade, input, dns_lookups, dial_attempts, dial_errors, result,
                   lock, lookups, dialed, succeeded, faults, accepted>>

(***************************************************************************)
(* resolve(&name, &resolver).await completes with the resolver's answer.   *)
(***************************************************************************)
\* mutant: a lookup that adds no address records an error of its own
ResolveWith_NoMatchError(d, answer) ==
    LET res == Resolve(cur[d][idx[d]], answer)
        new == Expansion(cur[d], idx[d], res)
    IN  /\ unresolved' = [unresolved EXCEPT ![d] = @ \o new]
        /\ dial_errors' = [dial_errors EXCEPT ![d] =
                IF new = <<>> THEN Append(@, NoMatchingRecords) ELSE @]
        /\ pc' = [pc EXCEPT ![d] = "loop"]

ResolveWith(d, answer) ==
    LET res == Resolve(cur[d][idx[d]], answer)
    IN  /\ unresolved' = [unresolved EXCEPT ![d] = @ \o Expansion(cur[d], idx[d], res)]
        /\ dial_errors' = [dial_errors EXCEPT ![d] = @ \o ResolveErrors(res)]
        /\ pc' = [pc EXCEPT ![d] = "loop"]

ResolveDone(d) ==
    /\ pc[d] = "resolve"
    /\ ResolveWith(d, ZoneAnswer(cur[d][idx[d]]))
    /\ UNCHANGED <<facade, input, dns_lookups, dial_attempts, cur, idx, result, lock,
                   lookups, dialed, succeeded, faults, accepted>>

ResolveFails(d) ==
    /\ pc[d] = "resolve"
    /\ faults[d] < MaxFaults
    /\ faults' = [faults EXCEPT ![d] = @ + 1]
    /\ ResolveWith(d, ResolverFault)
    /\ UNCHANGED <<facade, input, dns_lookups, dial_attempts, cur, idx, result, lock,
                   lookups, dialed, succeeded, accepted>>

(***************************************************************************)
(* transport.lock().dial(addr, dial_opts): the mutex is taken, the inner   *)
(* dial is called and the guard is dropped at the end of the statement.    *)
(***************************************************************************)
\* mutant: the mutex is entered without waiting for it to be free
LockInner_NoWait(d) ==
    /\ pc[d] = "lock"
    /\ lock' = d
    /\ pc' = [pc EXCEPT ![d] = "locked"]
    /\ UNCHANGED <<facade, input, unresolved, dns_lookups, dial_attempts, dial_errors,
                   cur, idx, result, lookups, dialed, succeeded, faults, accepted>>

LockInner(d) ==
    /\ pc[d] = "lock"
    /\ lock = 0
    /\ lock' = d
    /\ pc' = [pc EXCEPT ![d] = "locked"]
    /\ UNCHANGED <<facade, input, unresolved, dns_lookups, dial_attempts, dial_errors,
                   cur, idx, result, lookups, dialed, succeeded, faults, accepted>>

\* mutant: a new error replaces the errors recorded before it
DialError_KeepLast(d, err, attempts) ==
    LET errs == <<err>>
    IN  /\ dial_errors' = [dial_errors EXCEPT ![d] = errs]
        /\ IF StopAfterError(unresolved[d], attempts)
           THEN /\ pc' = [pc EXCEPT ![d] = "done"]
                /\ result' = [result EXCEPT ![d] = Failure(errs)]
           ELSE /\ pc' = [pc EXCEPT ![d] = "loop"]
                /\ UNCHANGED result

\* Err(err) of `match result`: record the error, then break or continue
DialError(d, err, attempts) ==
    LET errs == Append(dial_errors[d], err)
    IN  /\ dial_errors' = [dial_errors EXCEPT ![d] = errs]
        /\ IF StopAfterError(unresolved[d], attempts)
           THEN /\ pc' = [pc EXCEPT ![d] = "done"]
                /\ result' = [result EXCEPT ![d] = Failure(errs)]
           ELSE /\ pc' = [pc EXCEPT ![d] = "loop"]
                /\ UNCHANGED result

\* mutant: the mutex guard is kept after the inner dial has returned
InnerDialAccepted_KeepLock(d) ==
    /\ pc[d] = "locked"
    /\ dialed' = [dialed EXCEPT ![d] = Append(@, cur[d])]
    /\ dial_attempts' = [dial_attempts EXCEPT ![d] = @ + 1]
    /\ accepted' = [accepted EXCEPT ![d] = @ + 1]
    /\ pc' = [pc EXCEPT ![d] = "await"]
    /\ UNCHANGED <<facade, input, unresolved, dns_lookups, dial_errors, cur, idx,
                   result, lock, lookups, succeeded, faults>>

\* mutant: the dial future is left running and the loop goes on
InnerDialAccepted_NoAwait(d) ==
    /\ pc[d] = "locked"
    /\ lock' = 0
    /\ dialed' = [dialed EXCEPT ![d] = Append(@, cur[d])]
    /\ dial_attempts' = [dial_attempts EXCEPT ![d] = @ + 1]
    /\ accepted' = [accepted EXCEPT ![d] = @ + 1]
    /\ pc' = [pc EXCEPT ![d] = "loop"]
    /\ UNCHANGED <<facade, input, unresolved, dns_lookups, dial_errors, cur, idx,
                   result, lookups, succeeded, faults>>

\* the inner transport accepts the address and returns a dial future
InnerDialAccepted(d) ==
    /\ pc[d] = "locked"
    /\ lock' = 0
    /\ dialed' = [dialed EXCEPT ![d] = Append(@, cur[d])]
    /\ dial_attempts' = [dial_attempts EXCEPT ![d] = @ + 1]
    /\ accepted' = [accepted EXCEPT ![d] = @ + 1]
    /\ pc' = [pc EXCEPT ![d] = "await"]
    /\ UNCHANGED <<facade, input, unresolved, dns_lookups, dial_errors, cur, idx,
                   result, lookups, succeeded, faults>>

\* mutant: a refused dial counts as an attempt
InnerDialRefused_Counted(d, err) ==
    /\ pc[d] = "locked"
    /\ err \in InnerSyncErrors(cur[d])
    /\ faults[d] < MaxFaults
    /\ faults' = [faults EXCEPT ![d] = @ + 1]
    /\ lock' = 0
    /\ dialed' = [dialed EXCEPT ![d] = Append(@, cur[d])]
    /\ dial_attempts' = [dial_attempts EXCEPT ![d] = @ + 1]
    /\ DialError(d, err, dial_attempts[d] + 1)
    /\ UNCHANGED <<facade, input, unresolved, dns_lookups, cur, idx,
                   lookups, succeeded, accepted>>

\* the inner transport returns a synchronous error
InnerDialRefused(d, err) ==
    /\ pc[d] = "locked"
    /\ err \in InnerSyncErrors(cur[d])
    /\ faults[d] < MaxFaults
    /\ faults' = [faults EXCEPT ![d] = @ + 1]
    /\ lock' = 0
    /\ dialed' = [dialed EXCEPT ![d] = Append(@, cur[d])]
    /\ DialError(d, err, dial_attempts[d])
    /\ UNCHANGED <<facade, input, unresolved, dns_lookups, dial_attempts, cur, idx,
                   lookups, succeeded, accepted>>

(***************************************************************************)
(* out.await completes.                                                    *)
(***************************************************************************)
\* mutant: the success is noted but the loop goes on
DialSucceeds_Continue(d) ==
    /\ pc[d] = "await"
    /\ succeeded' = [succeeded EXCEPT ![d] = @ + 1]
    /\ pc' = [pc EXCEPT ![d] = IF unresolved[d] = <<>> THEN "done" ELSE "loop"]
    /\ result' = [result EXCEPT ![d] = [tag |-> "Ok", out |-> InnerOutput(cur[d])]]
    /\ UNCHANGED <<facade, input, unresolved, dns_lookups, dial_attempts, dial_errors,
                   cur, idx, lock, lookups, dialed, faults, accepted>>

\* mutant: the output of the call's first inner dial is returned
DialSucceeds_FirstDial(d) ==
    /\ pc[d] = "await"
    /\ succeeded' = [succeeded EXCEPT ![d] = @ + 1]
    /\ pc' = [pc EXCEPT ![d] = "done"]
    /\ result' = [result EXCEPT ![d] = [tag |-> "Ok", out |-> InnerOutput(dialed[d][1])]]
    /\ UNCHANGED <<facade, input, unresolved, dns_lookups, dial_attempts, dial_errors,
                   cur, idx, lock, lookups, dialed, faults, accepted>>

DialSucceeds(d) ==
    /\ pc[d] = "await"
    /\ succeeded' = [succeeded EXCEPT ![d] = @ + 1]
    /\ pc' = [pc EXCEPT ![d] = "done"]
    /\ result' = [result EXCEPT ![d] = [tag |-> "Ok", out |-> InnerOutput(cur[d])]]
    /\ UNCHANGED <<facade, input, unresolved, dns_lookups, dial_attempts, dial_errors,
                   cur, idx, lock, lookups, dialed, faults, accepted>>

DialFails(d) ==
    /\ pc[d] = "await"
    /\ DialError(d, ErrTransport(InnerError(cur[d])), dial_attempts[d])
    /\ UNCHANGED <<facade, input, unresolved, dns_lookups, dial_attempts, cur, idx,
                   lock, lookups, dialed, succeeded, faults, accepted>>

(***************************************************************************)
(* One dial call on the transport.                                         *)
(***************************************************************************)
Next ==
    \/ \E addr \in InputAddrs : Dial(1, addr)
    \/ LoopExit(1)
    \/ PopTooMany(1)
    \/ PopResolve(1)
    \/ PopDial(1)
    \/ ResolveDone(1)
    \/ ResolveFails(1)
    \/ LockInner(1)
    \/ InnerDialAccepted(1)
    \/ \E err \in InnerSyncErrors(cur[1]) : InnerDialRefused(1, err)
    \/ DialSucceeds(1)
    \/ DialFails(1)

Spec == Init /\ [][Next]_vars

(***************************************************************************)
(* The same call under a runtime that keeps polling the dial future, with  *)
(* every resolver lookup and every inner dial future completing.           *)
(***************************************************************************)
Progress ==
    \/ LoopExit(1)
    \/ PopTooMany(1)
    \/ PopResolve(1)
    \/ PopDial(1)
    \/ ResolveDone(1)
    \/ LockInner(1)
    \/ InnerDialAccepted(1)
    \/ DialSucceeds(1)
    \/ DialFails(1)

LiveSpec == Init /\ [][Next]_vars /\ WF_vars(Progress)

(***************************************************************************)
(* listen_on, remove_listener and poll of the wrapper: each takes the      *)
(* mutex, calls the inner transport and drops the guard when it returns.   *)
(* They take &mut self, so one such call runs at a time, on the task that  *)
(* owns the transport.                                                     *)
(***************************************************************************)
Caller == NumDials + 1

FacadeLock(op) ==
    /\ facade = "none"
    /\ lock = 0
    /\ lock' = Caller
    /\ facade' = op
    /\ UNCHANGED <<pc, input, unresolved, dns_lookups, dial_attempts, dial_errors,
                   cur, idx, result, lookups, dialed, succeeded, faults, accepted>>

ListenOn == FacadeLock("listen_on")
RemoveListener == FacadeLock("remove_listener")
Poll == FacadeLock("poll")

\* mutant: the call returns without dropping the mutex guard
FacadeReturn_KeepLock ==
    /\ facade # "none"
    /\ facade' = "none"
    /\ UNCHANGED <<pc, input, unresolved, dns_lookups, dial_attempts, dial_errors,
                   cur, idx, result, lock, lookups, dialed, accepted, succeeded,
                   faults>>

\* the inner call returns and the guard goes out of scope
FacadeReturn ==
    /\ facade # "none"
    /\ lock' = 0
    /\ facade' = "none"
    /\ UNCHANGED <<pc, input, unresolved, dns_lookups, dial_attempts, dial_errors,
                   cur, idx, result, lookups, dialed, succeeded, faults, accepted>>

(***************************************************************************)
(* The caller drops the dial future.  A future can be dropped only while   *)
(* it is not being polled, that is, while it is suspended at one of its    *)
(* two awaits; the drop runs no code of the wrapper.                       *)
(***************************************************************************)
Drop(d) ==
    /\ pc[d] \in {"resolve", "await"}
    /\ pc' = [pc EXCEPT ![d] = "dropped"]
    /\ UNCHANGED <<facade, input, unresolved, dns_lookups, dial_attempts, dial_errors,
                   cur, idx, result, lock, lookups, dialed, succeeded, faults,
                   accepted>>

(***************************************************************************)
(* Several dial futures of one transport polled on any tasks, next to the  *)
(* transport's other operations.                                           *)
(***************************************************************************)
ConcInputs ==
    { << <<"ip4", "1.2.3.4">>, <<"tcp", "20000">> >>,
      << <<"dns", "host">>, <<"tcp", "20000">> >>,
      << <<"dnsaddr", "cyc">> >> }

\* the calls that may be given an address with a name; every further call
\* dials an address that needs no lookup
DeepDials == {1, 2}

ConcInputsOf(d) ==
    IF d \in DeepDials THEN ConcInputs ELSE { a \in ConcInputs : FindName(a) = 0 }

ConcNext ==
    \/ \E d \in Dials :
          \/ \E addr \in ConcInputsOf(d) : Dial(d, addr)
          \/ LoopExit(d)
          \/ PopTooMany(d)
          \/ PopResolve(d)
          \/ PopDial(d)
          \/ ResolveDone(d)
          \/ LockInner(d)
          \/ InnerDialAccepted(d)
          \/ \E err \in InnerSyncErrors(cur[d]) : InnerDialRefused(d, err)
          \/ DialSucceeds(d)
          \/ DialFails(d)
          \/ Drop(d)
    \/ ListenOn
    \/ RemoveListener
    \/ Poll
    \/ FacadeReturn

ConcSpec == Init /\ [][ConcNext]_vars

(***************************************************************************)
(* The same under a runtime that keeps polling every dial future that can  *)
(* go on, with lookups and inner dial futures that complete, and with the  *)
(* mutex handing the lock to a waiting call sooner or later.  The first    *)
(* call may be given any of the inputs, the others an address that needs   *)
(* no lookup.                                                              *)
(***************************************************************************)
LiveInputsOf(d) ==
    IF d = 1 THEN ConcInputs ELSE { a \in ConcInputs : FindName(a) = 0 }

LiveConcNext ==
    \/ \E d \in Dials :
          \/ \E addr \in LiveInputsOf(d) : Dial(d, addr)
          \/ LoopExit(d)
          \/ PopTooMany(d)
          \/ PopResolve(d)
          \/ PopDial(d)
          \/ ResolveDone(d)
          \/ LockInner(d)
          \/ InnerDialAccepted(d)
          \/ \E err \in InnerSyncErrors(cur[d]) : InnerDialRefused(d, err)
          \/ DialSucceeds(d)
          \/ DialFails(d)
          \/ Drop(d)
    \/ ListenOn
    \/ RemoveListener
    \/ Poll
    \/ FacadeReturn

ConcProgress(d) ==
    \/ LoopExit(d)
    \/ PopTooMany(d)
    \/ PopResolve(d)
    \/ PopDial(d)
    \/ ResolveDone(d)
    \/ InnerDialAccepted(d)
    \/ DialSucceeds(d)
    \/ DialFails(d)

LiveConcSpec ==
    /\ Init
    /\ [][LiveConcNext]_vars
    /\ WF_vars(FacadeReturn)
    /\ WF_vars(\E d \in Dials : ConcProgress(d))
    /\ SF_vars(\E d \in Dials : LockInner(d))

(***************************************************************************)
(* Properties.                                                             *)
(***************************************************************************)
Started(d) == pc[d] # "idle"
Done(d) == pc[d] = "done"
Failed(d) == Done(d) /\ result[d].tag = "Err"
Succeeded(d) == Done(d) /\ result[d].tag = "Ok"
Dropped(d) == pc[d] = "dropped"

\* C1: every address passed to the inner transport's dial has no Dns, Dns4,
\* Dns6 or Dnsaddr component.
C1_ResolvedAddressesOnly ==
    \A d \in Dials : \A k \in 1..Len(dialed[d]) :
        \A j \in 1..Len(dialed[d][k]) :
            dialed[d][k][j][1] \notin {"dns", "dns4", "dns6", "dnsaddr"}

\* a dnsaddr input whose records led to an inner dial
C1_Witness ==
    /\ input[1] = << <<"dnsaddr", "boot">> >>
    /\ Len(dialed[1]) >= 2

\* C2: the resolver lookups issued by one dial call never exceed 32, as
\* counted by dns_lookups and as seen by the resolver.
C2_LookupBound ==
    \A d \in Dials : dns_lookups[d] <= 32 /\ Len(lookups[d]) <= 32

\* the cap is reached while addresses with names are still waiting
C2_Witness ==
    /\ dns_lookups[1] = 32
    /\ Len(lookups[1]) = 32
    /\ pc[1] = "loop"
    /\ Len(unresolved[1]) >= 2
    /\ \A k \in 1..Len(unresolved[1]) : unresolved[1][k] = << <<"dnsaddr", "fan">> >>

\* C3: the inner dial invocations that the inner transport accepted during
\* one dial call never exceed 16.
C3_DialAttemptBound ==
    \A d \in Dials : accepted[d] <= 16 /\ dial_attempts[d] <= 16

\* sixteen accepted attempts have failed and addresses are left over
C3_Witness ==
    /\ accepted[1] = 16
    /\ Failed(1)
    /\ unresolved[1] # <<>>

\* C4: once an inner dial future has resolved to success the call has
\* returned success, whatever is left in the work set, and it starts no
\* further inner dial and no further lookup.
C4_SuccessShortCircuit ==
    /\ [](\A d \in Dials : succeeded[d] >= 1 => Succeeded(d))
    /\ [][\A d \in Dials : succeeded[d] >= 1 =>
            /\ dialed'[d] = dialed[d]
            /\ lookups'[d] = lookups[d]]_vars

\* success with addresses still waiting in the work set
C4_Witness ==
    /\ succeeded[1] = 1
    /\ Succeeded(1)
    /\ Len(unresolved[1]) >= 2
    /\ Len(dialed[1]) >= 2

\* C5: a call that ends without success returns Dial with the whole error
\* list when an error was recorded, even a single one, and the synthetic
\* ResolveError exactly when none was; never a bare sub-error.
C5_FailureAggregation ==
    \A d \in Dials : Failed(d) =>
        /\ dial_errors[d] # <<>> => result[d].err = ErrDial(dial_errors[d])
        /\ dial_errors[d] = <<>> <=>
              result[d].err = ErrResolve("No Matching Records Found")
        /\ result[d].err.type \in {"Dial", "ResolveError"}

\* failure with exactly one recorded error
C5_Witness ==
    /\ Failed(1)
    /\ Len(dial_errors[1]) = 1
    /\ result[1].err.type = "Dial"
    /\ Len(result[1].err.errs) = 1

\* the non-empty suffixes that follow a Dnsaddr component of an address
DnsaddrSuffixes(addr) ==
    { SubSeq(addr, i + 1, Len(addr)) :
        i \in { k \in 1..(Len(addr) - 1) : addr[k][1] = "dnsaddr" } }

NameFree(addr) ==
    \A j \in 1..Len(addr) : addr[j][1] \notin {"dns", "dns4", "dns6", "dnsaddr"}

HasTail(a, suffix) ==
    /\ Len(a) >= Len(suffix)
    /\ \A j \in 1..Len(suffix) : a[Len(a) - Len(suffix) + j] = suffix[j]

\* C6 as stated: for an input with a Dnsaddr component followed by a
\* non-empty suffix, every address passed to the inner dial ends with that
\* suffix.
C6_SuffixAlways ==
    \A d \in Dials : \A suffix \in DnsaddrSuffixes(input[d]) :
        \A k \in 1..Len(dialed[d]) : HasTail(dialed[d][k], suffix)

\* C6: for an input with a Dnsaddr component followed by a non-empty suffix
\* that has no name-bearing component, every address passed to the inner
\* dial ends with that suffix.
C6_SuffixFiltering ==
    \A d \in Dials : \A suffix \in DnsaddrSuffixes(input[d]) :
        NameFree(suffix) =>
            \A k \in 1..Len(dialed[d]) : HasTail(dialed[d][k], suffix)

\* both records for peer A were dialed, one of them found through a further
\* dnsaddr name; the record for peer B was not
C6_Witness ==
    /\ input[1] = << <<"dnsaddr", "boot">>, <<"p2p", "A">> >>
    /\ dialed[1] =
         << << <<"ip4", "5.6.7.8">>, <<"tcp", "4001">>, <<"p2p", "A">> >>,
            << <<"ip4", "1.2.3.4">>, <<"tcp", "4001">>, <<"p2p", "A">> >> >>

\* C7: an input with no name-bearing component is handed to the inner dial
\* unchanged, exactly once, without any resolver call, and the inner dial's
\* output is returned when it succeeds.
C7_PassThrough ==
    \A d \in Dials : (Started(d) /\ NameFree(input[d])) =>
        /\ lookups[d] = <<>>
        /\ dns_lookups[d] = 0
        /\ Len(dialed[d]) <= 1
        /\ \A k \in 1..Len(dialed[d]) : dialed[d][k] = input[d]
        /\ Done(d) => dialed[d] = <<input[d]>>
        /\ succeeded[d] >= 1 =>
              result[d] = [tag |-> "Ok", out |-> [conn |-> input[d]]]

C7_Witness ==
    /\ input[1] = << <<"ip4", "1.2.3.4">>, <<"tcp", "20000">> >>
    /\ Succeeded(1)
    /\ dialed[1] = <<input[1]>>

\* the valid records at _dnsaddr.boot, in record order
BootValid ==
    << << <<"ip4", "1.2.3.4">>, <<"tcp", "4001">>, <<"p2p", "A">> >>,
       << <<"dnsaddr", "sub">>, <<"p2p", "A">> >>,
       << <<"dns4", "host">>, <<"tcp", "4001">>, <<"p2p", "B">> >> >>

\* the text of the invalid records contains this address and no other
FromInvalidRecord(addr) == \E j \in 1..Len(addr) : addr[j][2] = "6.6.6.6"

\* what the valid records contribute for a Dnsaddr component at i of addr
BootExpansion(addr, i) ==
    LET matching == SelectSeq(BootValid,
                        LAMBDA b : HasTail(b, SubSeq(addr, i + 1, Len(addr))))
    IN  [k \in 1..Len(matching) |-> SubSeq(addr, 1, i - 1) \o matching[k]]

\* C8: a TXT answer that mixes valid and invalid records adds to the work
\* set the expansions of the valid records only and records no error; the
\* valid records are resolved and dialed, and a failure of the call reports
\* the failed dials only.
C8_TxtParseTolerance ==
    /\ [][\A d \in Dials :
            (/\ pc[d] = "resolve"
             /\ pc'[d] = "loop"
             /\ cur[d][idx[d]] = <<"dnsaddr", "boot">>
             /\ faults'[d] = faults[d]) =>
                /\ unresolved'[d] = unresolved[d] \o BootExpansion(cur[d], idx[d])
                /\ dial_errors'[d] = dial_errors[d]]_vars
    /\ [](\A d \in Dials :
            /\ \A k \in 1..Len(unresolved[d]) : ~FromInvalidRecord(unresolved[d][k])
            /\ \A k \in 1..Len(dialed[d]) : ~FromInvalidRecord(dialed[d][k])
            /\ (Failed(d) /\ input[d] = << <<"dnsaddr", "boot">> >> /\ faults[d] = 0) =>
                  /\ Len(dialed[d]) = 3
                  /\ result[d].err.type = "Dial"
                  /\ Len(result[d].err.errs) = 3
                  /\ \A k \in 1..3 : result[d].err.errs[k].type = "Transport")

\* the mixed answer has been taken in: three addresses wait, no error
C8_Witness ==
    /\ input[1] = << <<"dnsaddr", "boot">> >>
    /\ lookups[1] = << <<"dnsaddr", "boot">> >>
    /\ pc[1] = "loop"
    /\ unresolved[1] = BootValid
    /\ dial_errors[1] = <<>>

\* C9: every dial call that was started reaches Success or Failure.
C9_Termination == \A d \in Dials : Started(d) ~> Done(d)

\* the call on the self-referencing name has ended
C9_Witness ==
    /\ input[1] = << <<"dnsaddr", "cyc">> >>
    /\ Done(1)
    /\ dns_lookups[1] = 32

\* C10: a dial of a dnsaddr name whose TXT records always refer back to it
\* never dials the inner transport and fails with a Dial error that holds
\* TooManyLookups, after exactly 32 resolver calls.
C10_CyclicDnsaddr ==
    \A d \in Dials :
        (/\ input[d] \in { << <<"dnsaddr", "cyc">> >>, << <<"dnsaddr", "fan">> >> }
         /\ faults[d] = 0) =>
            /\ dialed[d] = <<>>
            /\ Done(d) =>
                  /\ result[d].tag = "Err"
                  /\ result[d].err.type = "Dial"
                  /\ \E k \in 1..Len(result[d].err.errs) :
                        result[d].err.errs[k] = [type |-> "TooManyLookups"]
                  /\ Len(lookups[d]) = 32

C10_Witness ==
    /\ input[1] = << <<"dnsaddr", "cyc">> >>
    /\ faults[1] = 0
    /\ Done(1)
    /\ result[1] = [tag |-> "Err",
                    err |-> [type |-> "Dial", errs |-> <<[type |-> "TooManyLookups"]>>]]
    /\ Len(lookups[1]) = 32

\* the state of one dial call, and a step of that call
Local(d) ==
    <<pc[d], input[d], unresolved[d], dns_lookups[d], dial_attempts[d],
      dial_errors[d], cur[d], idx[d], result[d], lookups[d], dialed[d],
      accepted[d], succeeded[d], faults[d]>>

Stepped(d) == Local(d)' # Local(d)

Recorded(d, err) == \E k \in 1..Len(dial_errors[d]) : dial_errors[d][k] = err

\* C11: when the address to pop has a name-bearing component and dns_lookups
\* is 32, the step records TooManyLookups, removes that address only, calls
\* neither the resolver nor the inner dial and stays in the loop; a call that
\* recorded TooManyLookups ends in failure only with an empty work set or at
\* the attempt cap, so the resolved addresses left over are still dialed.
C11_TooManyLookups ==
    /\ [][\A d \in Dials :
            (/\ pc[d] = "loop"
             /\ unresolved[d] # <<>>
             /\ ~NameFree(Last(unresolved[d]))
             /\ dns_lookups[d] = 32
             /\ Stepped(d)) =>
                /\ unresolved'[d] = Front(unresolved[d])
                /\ dial_errors'[d] = Append(dial_errors[d], [type |-> "TooManyLookups"])
                /\ lookups'[d] = lookups[d]
                /\ dns_lookups'[d] = 32
                /\ dialed'[d] = dialed[d]
                /\ pc'[d] = "loop"]_vars
    /\ [](\A d \in Dials :
            (Failed(d) /\ Recorded(d, [type |-> "TooManyLookups"])) =>
                unresolved[d] = <<>> \/ dial_attempts[d] = 16)

\* an address was dropped at the lookup cap and a resolved address that was
\* waiting behind it was dialed with success
C11_Witness ==
    /\ input[1] = << <<"dnsaddr", "mix">> >>
    /\ dns_lookups[1] = 32
    /\ dial_errors[1] = <<[type |-> "TooManyLookups"]>>
    /\ Succeeded(1)
    /\ Len(unresolved[1]) = 31

\* who is inside a `self.inner.lock()` ... end-of-statement section
InCritical ==
    { d \in Dials : pc[d] = "locked" }
        \cup (IF facade # "none" THEN {Caller} ELSE {})

\* C12: with dial calls and listen_on / remove_listener / poll calls
\* interleaved, at most one of them is inside the locked section, and a dial
\* call holds the lock only between taking it and the return of the inner
\* dial: never while it waits for the resolver or for a dial future.
C12_LockDiscipline ==
    /\ Cardinality(InCritical) <= 1
    /\ InCritical = (IF lock = 0 THEN {} ELSE {lock})
    /\ \A d \in Dials : pc[d] \in {"resolve", "await"} => lock # d

\* one dial waits on its dial future, another waits on the resolver, a
\* third party holds the lock
C12_Witness ==
    /\ pc[1] = "await"
    /\ pc[2] \in {"resolve", "lock"}
    /\ lock = Caller
    /\ facade = "poll"

\* C13: a call has returned success exactly when one of its inner dial
\* futures resolved to success; then it is the only one that did, it belongs
\* to the last inner dial invoked, and the result is that dial's output and
\* nothing else: none of the errors recorded before it.
C13_SuccessIffInnerSuccess ==
    \A d \in Dials :
        /\ Succeeded(d) <=> succeeded[d] >= 1
        /\ succeeded[d] <= 1
        /\ Succeeded(d) =>
              /\ dialed[d] # <<>>
              /\ result[d] = [tag |-> "Ok", out |-> [conn |-> Last(dialed[d])]]

\* success on the second inner dial, after a recorded error
C13_Witness ==
    /\ Succeeded(1)
    /\ Len(dialed[1]) = 2
    /\ dialed[1][1] # dialed[1][2]
    /\ Len(dial_errors[1]) = 1
    /\ dial_errors[1][1].type = "Transport"

\* the records of a successful TXT answer, none of which ends with suffix
NoneMatches(answer, suffix) ==
    /\ answer.ok
    /\ \A k \in 1..Len(ParsedAddrs(answer.txts)) :
          ~HasTail(ParsedAddrs(answer.txts)[k], suffix)

\* C14: a Dnsaddr lookup that succeeds with no parsed record ending with
\* the suffix of the address being resolved, or with no parsed record at
\* all, adds no address and records no error; a call that ends with no
\* error recorded and no success fails with the top-level
\* ResolveError("No Matching Records Found") and has never called the inner
\* dial.
C14_NoMatchingRecords ==
    /\ [][\A d \in Dials :
            (/\ pc[d] = "resolve"
             /\ pc'[d] = "loop"
             /\ cur[d][idx[d]][1] = "dnsaddr"
             /\ faults'[d] = faults[d]
             /\ NoneMatches(ZoneAnswer(cur[d][idx[d]]),
                            SubSeq(cur[d], idx[d] + 1, Len(cur[d])))) =>
                /\ unresolved'[d] = unresolved[d]
                /\ dial_errors'[d] = dial_errors[d]]_vars
    /\ [](\A d \in Dials :
            (Failed(d) /\ dial_errors[d] = <<>>) =>
                /\ result[d].err =
                      [type |-> "ResolveError", rerr |-> "No Matching Records Found"]
                /\ dialed[d] = <<>>)

\* the records were found but none is for the peer asked for
C14_Witness ==
    /\ input[1] = << <<"dnsaddr", "boot">>, <<"p2p", "Z">> >>
    /\ lookups[1] = << <<"dnsaddr", "boot">> >>
    /\ Failed(1)
    /\ result[1].err = [type |-> "ResolveError", rerr |-> "No Matching Records Found"]
    /\ dialed[1] = <<>>

\* the address has exactly one name-bearing component
OneName(addr) ==
    Cardinality({ j \in 1..Len(addr) :
        addr[j][1] \in {"dns", "dns4", "dns6", "dnsaddr"} }) = 1

\* C15: when the resolver fails the lookup of the only name-bearing
\* component of the input, the step records ResolveError with the resolver's
\* error unchanged and pushes nothing, and the call fails with Dial of
\* exactly that one error without having called the inner dial.
C15_ResolverFailure ==
    /\ [][\A d \in Dials :
            (/\ pc[d] = "resolve"
             /\ pc'[d] = "loop"
             /\ OneName(input[d])
             /\ Len(lookups[d]) = 1
             /\ (faults'[d] # faults[d] \/ ~ZoneAnswer(cur[d][idx[d]]).ok)) =>
                /\ unresolved'[d] = <<>>
                /\ dial_errors'[d] =
                      <<[type |-> "ResolveError",
                         rerr |-> IF faults'[d] # faults[d] THEN "Timeout"
                                  ELSE "NoRecordsFound"]>>]_vars
    /\ [](\A d \in Dials :
            (/\ Done(d)
             /\ OneName(input[d])
             /\ Len(lookups[d]) = 1
             /\ \E k \in 1..Len(dial_errors[d]) :
                    dial_errors[d][k].type = "ResolveError") =>
                /\ dialed[d] = <<>>
                /\ result[d].tag = "Err"
                /\ result[d].err.type = "Dial"
                /\ Len(result[d].err.errs) = 1
                /\ result[d].err.errs[1].type = "ResolveError"
                /\ result[d].err.errs[1].rerr \in {"Timeout", "NoRecordsFound"})

\* the name has no records
C15_Witness ==
    /\ input[1] = << <<"dns4", "invalid">>, <<"tcp", "20000">> >>
    /\ Failed(1)
    /\ result[1].err =
          [type |-> "Dial",
           errs |-> <<[type |-> "ResolveError", rerr |-> "NoRecordsFound"]>>]
    /\ dialed[1] = <<>>

\* the call is over, every lookup it issued was answered with records, the
\* inner transport accepted every dial, of which there was at least one, and
\* every dial future failed
AllDialsFailed(d) ==
    /\ Done(d)
    /\ dialed[d] # <<>>
    /\ faults[d] = 0
    /\ succeeded[d] = 0
    /\ \A k \in 1..Len(lookups[d]) : ZoneAnswer(lookups[d][k]).ok

\* the fully resolved addresses that resolution has produced
ResolvedCount(d) ==
    Len(dialed[d]) + Cardinality({ k \in 1..Len(unresolved[d]) : NameFree(unresolved[d][k]) })

\* the failure is Dial with one Transport error per inner dial, in order
OneTransportErrorPerDial(d) ==
    /\ result[d].tag = "Err"
    /\ result[d].err.type = "Dial"
    /\ Len(result[d].err.errs) = Len(dialed[d])
    /\ \A k \in 1..Len(dialed[d]) :
          result[d].err.errs[k] =
              [type |-> "Transport",
               terr |-> [kind |-> "Unsupported", addr |-> dialed[d][k]]]
    /\ ResolvedCount(d) >= 2 => Len(result[d].err.errs) >= 2

\* C16 as stated: when every lookup succeeds, every dial is accepted and
\* every dial future fails, the call fails with Dial of one Transport error
\* per inner dial and nothing else.
C16_OnlyTransportErrors ==
    \A d \in Dials : AllDialsFailed(d) => OneTransportErrorPerDial(d)

\* C16: when every lookup succeeds, no address is dropped at the lookup
\* cap, every dial is accepted and every dial future fails, the call fails
\* with Dial of one Transport error per inner dial and nothing else; two
\* resolved addresses give two errors.
C16_AggregatedDialErrors ==
    \A d \in Dials :
        (AllDialsFailed(d) /\ ~Recorded(d, [type |-> "TooManyLookups"])) =>
            OneTransportErrorPerDial(d)

\* three addresses came out of the records and each dial of them failed
C16_Witness ==
    /\ input[1] = << <<"dnsaddr", "boot">> >>
    /\ AllDialsFailed(1)
    /\ Len(lookups[1]) = 3
    /\ Len(dialed[1]) = 3
    /\ Len(result[1].err.errs) = 3

C18_AttemptCapStops ==
    [][\A d \in Dials :
          /\ (/\ pc[d] \in {"locked", "await"}
              /\ Len(dial_errors'[d]) = Len(dial_errors[d]) + 1
              /\ dial_attempts'[d] = 16) =>
                /\ pc'[d] = "done"
                /\ unresolved'[d] = unresolved[d]
                /\ result'[d] = [tag |-> "Err",
                                 err |-> [type |-> "Dial", errs |-> dial_errors'[d]]]
          /\ Done(d) => Local(d)' = Local(d)]_vars

\* the sixteenth dial has failed and one address was left undialed
C18_Witness ==
    /\ input[1] = << <<"dns4", "big">>, <<"tcp", "1">> >>
    /\ Failed(1)
    /\ dial_attempts[1] = 16
    /\ Len(dialed[1]) = 16
    /\ Len(result[1].err.errs) = 16
    /\ unresolved[1] = << << <<"ip4", "10.0.0.1">>, <<"tcp", "1">> >> >>

IsPrefix(s, t) == Len(s) <= Len(t) /\ s = SubSeq(t, 1, Len(s))

\* C20: the work set is a stack.  A step that takes an address takes the
\* last one and leaves the others in place, a lookup adds its addresses
\* after those already there, and no other step touches the work set.  So
\* the two addresses of one lookup of /dns/host are dialed in the reverse of
\* the resolver's order, and for /dnsaddr/boot the address found through the
\* record /dnsaddr/sub is dialed before the address of the record pushed
\* before it.
C20_LifoOrder ==
    /\ [][\A d \in Dials :
            /\ (pc[d] = "loop" /\ unresolved'[d] # unresolved[d]) =>
                  /\ unresolved[d] # <<>>
                  /\ unresolved'[d] = Front(unresolved[d])
                  /\ pc'[d] \in {"resolve", "lock"} => cur'[d] = Last(unresolved[d])
            /\ (pc[d] = "loop" /\ pc'[d] \in {"resolve", "lock"}) =>
                  Len(unresolved'[d]) = Len(unresolved[d]) - 1
            /\ (pc[d] = "resolve" /\ Stepped(d)) =>
                  IsPrefix(unresolved[d], unresolved'[d])
            /\ pc[d] \in {"lock", "locked", "await", "done"} =>
                  unresolved'[d] = unresolved[d]]_vars
    /\ [](\A d \in Dials : faults[d] = 0 =>
            /\ input[d] = << <<"dns", "host">>, <<"tcp", "20000">> >> =>
                  IsPrefix(dialed[d],
                      << << <<"ip6", "::1">>, <<"tcp", "20000">> >>,
                         << <<"ip4", "1.2.3.4">>, <<"tcp", "20000">> >> >>)
            /\ input[d] = << <<"dnsaddr", "boot">> >> =>
                  IsPrefix(dialed[d],
                      << << <<"ip4", "1.2.3.4">>, <<"tcp", "4001">>, <<"p2p", "B">> >>,
                         << <<"ip4", "5.6.7.8">>, <<"tcp", "4001">>, <<"p2p", "A">> >>,
                         << <<"ip4", "1.2.3.4">>, <<"tcp", "4001">>, <<"p2p", "A">> >> >>))

\* the address behind /dnsaddr/sub was dialed second, the first record last
C20_Witness ==
    /\ input[1] = << <<"dnsaddr", "boot">> >>
    /\ faults[1] = 0
    /\ Len(dialed[1]) = 3
    /\ dialed[1][2] = << <<"ip4", "5.6.7.8">>, <<"tcp", "4001">>, <<"p2p", "A">> >>
    /\ dialed[1][3] = << <<"ip4", "1.2.3.4">>, <<"tcp", "4001">>, <<"p2p", "A">> >>

\* the component at position i of addr replaced by the literal of ip
WithIp(addr, i, ip) ==
    [j \in 1..Len(addr) |->
        IF j = i THEN <<IF ip.v = 4 THEN "ip4" ELSE "ip6", ip.a>> ELSE addr[j]]

\* C21: a lookup for a Dns, Dns4 or Dns6 component at position i of the
\* popped address that returns N >= 1 IPs appends exactly N addresses to the
\* work set, in the resolver's order, each being the popped address with the
\* IP literal at position i and every other component as it was; no error is
\* recorded.
C21_IpExpansion ==
    [][\A d \in Dials :
          (/\ pc[d] = "resolve"
           /\ pc'[d] = "loop"
           /\ cur[d][idx[d]][1] \in {"dns", "dns4", "dns6"}
           /\ faults'[d] = faults[d]
           /\ ZoneAnswer(cur[d][idx[d]]).ok) =>
              LET ips == ZoneAnswer(cur[d][idx[d]]).ips
              IN  /\ Len(ips) >= 1
                  /\ Len(unresolved'[d]) = Len(unresolved[d]) + Len(ips)
                  /\ SubSeq(unresolved'[d], 1, Len(unresolved[d])) = unresolved[d]
                  /\ \A k \in 1..Len(ips) :
                        unresolved'[d][Len(unresolved[d]) + k] =
                            WithIp(cur[d], idx[d], ips[k])
                  /\ dial_errors'[d] = dial_errors[d]]_vars

\* seventeen IPs of one name are in the work set, first to last
C21_Witness ==
    /\ lookups[1] = << <<"dns4", "big">> >>
    /\ pc[1] = "loop"
    /\ Len(unresolved[1]) = 17
    /\ unresolved[1][1] = << <<"ip4", "10.0.0.1">>, <<"tcp", "1">> >>
    /\ unresolved[1][17] = << <<"ip4", "10.0.0.17">>, <<"tcp", "1">> >>

\* C22: a lookup for a Dnsaddr component at position i of the popped
\* address appends prefix ++ b for the first min(16, m) parsed records b that
\* end with the suffix, in record order, m being the number of such records;
\* b is taken whole, so the suffix appears once; records that do not match
\* do not use up the cap, and neither they nor the records beyond the cap
\* add an error.
C22_DnsaddrExpansion ==
    [][\A d \in Dials :
          (/\ pc[d] = "resolve"
           /\ pc'[d] = "loop"
           /\ cur[d][idx[d]][1] = "dnsaddr"
           /\ faults'[d] = faults[d]
           /\ ZoneAnswer(cur[d][idx[d]]).ok) =>
              LET bs == ParsedAddrs(ZoneAnswer(cur[d][idx[d]]).txts)
                  suffix == SubSeq(cur[d], idx[d] + 1, Len(cur[d]))
                  prefix == SubSeq(cur[d], 1, idx[d] - 1)
                  matching == SelectSeq(bs, LAMBDA b : HasTail(b, suffix))
                  m == Len(matching)
                  taken == IF m < 16 THEN m ELSE 16
              IN  /\ unresolved'[d] =
                        unresolved[d] \o [k \in 1..taken |-> prefix \o matching[k]]
                  /\ dial_errors'[d] = dial_errors[d]]_vars

\* of 19 records the first two are for another peer and 17 match: the first
\* 16 matching ones are in the work set
C22_Witness ==
    /\ lookups[1] = << <<"dnsaddr", "wide">> >>
    /\ pc[1] = "loop"
    /\ Len(unresolved[1]) = 16
    /\ unresolved[1][1] = << <<"ip4", "10.0.0.3">>, <<"tcp", "1">>, <<"p2p", "A">> >>
    /\ unresolved[1][16] = << <<"ip4", "10.0.0.18">>, <<"tcp", "1">>, <<"p2p", "A">> >>
    /\ dial_errors[1] = <<>>

NameBearing(p) == p[1] \in {"dns", "dns4", "dns6", "dnsaddr"}

\* C23: while a call waits for the resolver, the component it handed over
\* is a Dns, Dns4, Dns6 or Dnsaddr component of the popped address with no
\* such component to its left; the resolver has never been given any other
\* kind of component.
C23_LeftmostName ==
    \A d \in Dials :
        /\ \A k \in 1..Len(lookups[d]) : NameBearing(lookups[d][k])
        /\ pc[d] = "resolve" =>
              /\ idx[d] \in 1..Len(cur[d])
              /\ Last(lookups[d]) = cur[d][idx[d]]
              /\ NameBearing(cur[d][idx[d]])
              /\ \A j \in 1..(idx[d] - 1) : ~NameBearing(cur[d][j])

\* the first name has been replaced and the second one, at position 3, is
\* with the resolver
C23_Witness ==
    /\ pc[1] = "resolve"
    /\ cur[1] = << <<"ip6", "::1">>, <<"tcp", "1">>, <<"dnsaddr", "sub">>, <<"p2p", "A">> >>
    /\ idx[1] = 3
    /\ lookups[1] = << <<"dns6", "host">>, <<"dnsaddr", "sub">> >>

\* the dial futures of the call that have failed
FailedFutures(d) ==
    Cardinality({ k \in 1..Len(dial_errors[d]) :
        /\ dial_errors[d][k].type = "Transport"
        /\ dial_errors[d][k].terr.kind = "Unsupported" })

\* the dial futures obtained from the inner transport and not yet completed
OutstandingDials(d) == accepted[d] - succeeded[d] - FailedFutures(d)

\* C24: a call has at most one dial future outstanding, and has one exactly
\* while it awaits it; while it waits for the resolver or for a dial future
\* it starts no lookup and no inner dial, and its next step is the
\* completion of what it waits for; a step starts at most one lookup or
\* dial, and the call then waits for it.
C24_Sequential ==
    /\ [](\A d \in Dials :
            /\ OutstandingDials(d) \in {0, 1}
            /\ OutstandingDials(d) = 1 <=> pc[d] = "await"
            /\ pc[d] = "resolve" => OutstandingDials(d) = 0)
    /\ [][\A d \in Dials :
            /\ pc[d] \in {"resolve", "await"} =>
                  /\ lookups'[d] = lookups[d]
                  /\ dialed'[d] = dialed[d]
                  /\ Stepped(d) => pc'[d] \in {"loop", "done"}
            /\ Len(lookups'[d]) + Len(dialed'[d]) <= Len(lookups[d]) + Len(dialed[d]) + 1
            /\ Len(lookups'[d]) > Len(lookups[d]) => pc'[d] = "resolve"
            /\ accepted'[d] > accepted[d] => pc'[d] = "await"]_vars

\* two lookups and one dial are over and the second dial future is awaited
C24_Witness ==
    /\ pc[1] = "await"
    /\ Len(lookups[1]) = 2
    /\ Len(dialed[1]) = 2
    /\ accepted[1] = 2
    /\ OutstandingDials(1) = 1

\* C25: with several calls interleaved, a step of one call changes nothing
\* of any other call: not its work set, its counters or its error list; and
\* each call's counters count its own lookups and accepted dials, up to 32
\* and 16.
C25_PerCallState ==
    /\ [][\A d \in Dials : \A e \in Dials \ {d} :
            Stepped(d) =>
                /\ unresolved'[e] = unresolved[e]
                /\ dns_lookups'[e] = dns_lookups[e]
                /\ dial_attempts'[e] = dial_attempts[e]
                /\ dial_errors'[e] = dial_errors[e]
                /\ Local(e)' = Local(e)]_vars
    /\ [](\A d \in Dials :
            /\ dns_lookups[d] = Len(lookups[d])
            /\ dns_lookups[d] <= 32
            /\ dial_attempts[d] = accepted[d]
            /\ dial_attempts[d] <= 16)

\* two calls have each used up their own 32 lookups
C25_Witness ==
    /\ dns_lookups[1] = 32
    /\ dns_lookups[2] = 32
    /\ Len(lookups[1]) = 32
    /\ Len(lookups[2]) = 32

AnyDropped == \E d \in Dials : Dropped(d)

\* every call that was started has ended or was dropped
AllSettled == \A e \in Dials : Started(e) => (Done(e) \/ Dropped(e))

\* C26: a dial future is dropped, while it waits for the resolver or for a
\* dial future, without holding the lock, and the drop changes nothing but
\* the dropped call; afterwards a call that asks for the lock has taking it
\* as its next step, and a state is reached again in which every other
\* dial call that was under way has ended, the listen_on, remove_listener or
\* poll call that was under way has returned and the lock is free.
C26_DropNeedsNoCleanup ==
    /\ [](\A d \in Dials : Dropped(d) => lock # d)
    /\ [][\A d \in Dials :
            /\ (~Dropped(d) /\ Dropped(d)') =>
                  /\ pc[d] \in {"resolve", "await"}
                  /\ lock # d
                  /\ lock' = lock
                  /\ facade' = facade
                  /\ \A e \in Dials \ {d} : Local(e)' = Local(e)
            /\ (pc[d] = "lock" /\ Stepped(d)) => (pc'[d] = "locked" /\ lock' = d)]_vars
    /\ AnyDropped ~> (AllSettled /\ facade = "none" /\ lock = 0)

\* one call was dropped while it awaited its dial future, and after that
\* another call and a poll have used the lock
C26_Witness ==
    /\ Dropped(1)
    /\ Len(dialed[1]) = 1
    /\ accepted[1] = 1
    /\ Succeeded(2)
    /\ facade = "poll"
    /\ lock = Caller

(***************************************************************************)
(* C27: source() of a Dial(list) error with a non-empty list is the last   *)
(* element of list, whatever variant that element is.                      *)
(***************************************************************************)
DialFailure(d) ==
    /\ Failed(d)
    /\ result[d].err.type = "Dial"
    /\ result[d].err.errs # <<>>

C27_SourceIsLastSubError ==
    \A d \in Dials :
        DialFailure(d) =>
            LET s == Source(result[d].err)
            IN  /\ s.some
                /\ s.of = "Error"
                /\ s.v = Last(result[d].err.errs)

(***************************************************************************)
(* C28: the wrapper's dial never fails synchronously.  Whatever the input  *)
(* address, the call is possible and only creates the dial future: it      *)
(* takes no lock, makes no lookup and no inner dial, and sets no result.   *)
(* A result, and so every error, appears only in a later step of the       *)
(* future, as its output, after a lookup or an inner dial it has made.     *)
(***************************************************************************)
C28_DialNeverFailsSynchronously ==
    /\ [](\A d \in Dials :
            /\ pc[d] = "idle" => \A addr \in InputAddrs : ENABLED Dial(d, addr)
            /\ result[d] # NoResult => Done(d)
            /\ Failed(d) => (lookups[d] # <<>> \/ dialed[d] # <<>>))
    /\ [][\A d \in Dials :
            /\ (pc[d] = "idle" /\ Stepped(d)) =>
                  /\ pc'[d] = "loop"
                  /\ unresolved'[d] = <<input'[d]>>
                  /\ dial_errors'[d] = <<>>
                  /\ result'[d] = NoResult
                  /\ lock' = lock
                  /\ lookups' = lookups
                  /\ dialed' = dialed
                  /\ accepted' = accepted
                  /\ faults' = faults
            /\ result'[d] # result[d] =>
                  (pc[d] \in {"loop", "resolve", "locked", "await"} /\ pc'[d] = "done")]_vars

\* the inner transport refused the input address itself, and the refusal is
\* the output of the dial future
C28_Witness ==
    /\ FullyResolved(input[1])
    /\ dialed[1] = <<input[1]>>
    /\ Failed(1)
    /\ result[1].err = ErrDial(<<ErrNotSupported(input[1])>>)

(***************************************************************************)
(* C29: concurrent dial calls never deadlock on the lock of the inner      *)
(* transport.  Under fair scheduling, with dial calls interleaved with     *)
(* listen_on, remove_listener and poll calls, every dial call that is not  *)
(* dropped gets the lock each time it waits for it and ends in success or  *)
(* failure: from some point on no call is left in progress.                *)
(***************************************************************************)
Settled(d) == pc[d] = "idle" \/ Dropped(d) \/ Succeeded(d) \/ Failed(d)

C29_NoDeadlock == <>[](\A d \in Dials : Settled(d))

\* a dial call waits for the lock while a poll call holds it, next to
\* another dial call that has already succeeded
C29_Witness ==
    /\ pc[1] = "lock"
    /\ unresolved[1] # <<>>
    /\ lock = Caller
    /\ facade = "poll"
    /\ Succeeded(2)

====
